---- MODULE Spec2Model ----
(***************************************************************************)
(* Model of xai_engine/get_analysis.py: the credit-factor scorer           *)
(* calculate_factors_from_plaid applied to a Plaid document                *)
(* {accounts: [...], transactions: [...]}.                                 *)
(*                                                                         *)
(* Python dicts are modelled as TLA+ functions whose DOMAIN is the set of  *)
(* keys present, so that a missing key is really missing.  Python floats   *)
(* are modelled as exact rationals [num, den]; int() is truncation.        *)
(* Strings that the code only compares for equality are TLA+ strings;      *)
(* 'category', which the code lower-cases and searches, is a sequence of   *)
(* one-character strings.                                                  *)
(***************************************************************************)
EXTENDS Integers, Sequences, FiniteSets, TLC

VARIABLES
    \* the Plaid document and the outcome of scoring it
    accounts, transactions, result,
    \* a second call on the same document, its accounts enumerated in another order
    second,
    \* one run of get_analysis.py: command line, file system, position,
    \* loaded value, caught exception, the two output channels, exit status
    argv, files, pc, plaid_data, caught, stdout, stderr, exit_status,
    \* one HTTP request to the Flask apps: the request, the feature rows the
    \* quest script finds, what the subprocess does, the commands handed to
    \* subprocess.run, the response
    request, df, proc, spawned, response

scorerVars == <<accounts, transactions, result, second>>

mainVars == <<argv, files, pc, plaid_data, caught, stdout, stderr, exit_status>>

apiVars == <<request, df, proc, spawned, response>>

vars == <<scorerVars, mainVars, apiVars>>

\* ------------------------------------------------------------------ bounds
\* the document holds at most MaxRecords records (accounts plus transactions)
MaxRecords == 5

\* ------------------------------------------------------- python primitives
\* {} : the dict with no keys
EmptyDict == [k \in {} |-> 0]

\* d.get(k, default)
DictGet(d, k, default) == IF k \in DOMAIN d THEN d[k] ELSE default

\* d.get(k) used as a condition: present and not the empty string
DictGetTruthy(d, k) == k \in DOMAIN d /\ d[k] # ""

\* a float, kept exact
Rat(n, d) == [num |-> n, den |-> d]

RatLess(a, b) == a.num * b.den < b.num * a.den

RatMin(a, b) == IF RatLess(b, a) THEN b ELSE a

\* int(x): truncation toward zero
PyInt(r) ==
    IF r.num >= 0 THEN r.num \div r.den ELSE -((-r.num) \div r.den)

PyAbs(x) == IF x < 0 THEN -x ELSE x

PyMax(a, b) == IF a >= b THEN a ELSE b

RECURSIVE PySum(_)
PySum(s) == IF s = <<>> THEN 0 ELSE Head(s) + PySum(Tail(s))

\* set(s)
PySet(s) == {s[i] : i \in 1..Len(s)}

UpperChars ==
    <<"A","B","C","D","E","F","G","H","I","J","K","L","M",
      "N","O","P","Q","R","S","T","U","V","W","X","Y","Z">>

LowerChars ==
    <<"a","b","c","d","e","f","g","h","i","j","k","l","m",
      "n","o","p","q","r","s","t","u","v","w","x","y","z">>

LowerChar(c) ==
    IF \E i \in 1..26 : UpperChars[i] = c
    THEN LowerChars[CHOOSE i \in 1..26 : UpperChars[i] = c]
    ELSE c

\* s.lower()
PyLower(s) == [i \in 1..Len(s) |-> LowerChar(s[i])]

\* sub in s
PyContains(sub, s) ==
    \E i \in 1..(Len(s) - Len(sub) + 1) : SubSeq(s, i, i + Len(sub) - 1) = sub

\* ------------------------------------------------ calculate_factors_from_plaid
\* acc.get('balances', {}).get('current', 0)
balance_current(acc) == DictGet(DictGet(acc, "balances", EmptyDict), "current", 0)

\* acc.get('balances', {}).get('limit', 0)
balance_limit(acc) == DictGet(DictGet(acc, "balances", EmptyDict), "limit", 0)

is_credit_card(acc) == "subtype" \in DOMAIN acc /\ acc["subtype"] = "credit card"

total_balance(accts) ==
    PySum([i \in 1..Len(accts) |-> balance_current(accts[i])])

credit_accounts(accts) == SelectSeq(accts, is_credit_card)

total_credit_limit(accts) ==
    LET cs == credit_accounts(accts)
    IN  PySum([i \in 1..Len(cs) |-> balance_limit(cs[i])])

is_drawn(acc) == balance_current(acc) < 0

abs_current(acc) == PyAbs(balance_current(acc))

total_credit_used(accts) ==
    LET cs == SelectSeq(credit_accounts(accts), is_drawn)
    IN  PySum([i \in 1..Len(cs) |-> abs_current(cs[i])])

\* Payment History (35% weight)
\* mutant of is_on_time: a zero amount is not on time
is_on_time_strict(tx) == DictGet(tx, "amount", 0) > 0

is_on_time(tx) == DictGet(tx, "amount", 0) >= 0

recent_txs(txs) == SelectSeq(txs, is_on_time)

\* mutant of payment_history_score: no midpoint for an empty history
payment_history_score_no_default(txs) ==
    RatMin(Rat(100, 1), Rat(Len(recent_txs(txs)) * 100, PyMax(1, Len(txs))))

payment_history_score(txs) ==
    IF txs # <<>>
    THEN RatMin(Rat(100, 1), Rat(Len(recent_txs(txs)) * 100, PyMax(1, Len(txs))))
    ELSE Rat(50, 1)

payment_history_impact(txs) ==
    LET s == payment_history_score(txs)
    IN  PyInt(Rat(s.num * 35, s.den * 100))

\* Credit Utilization (30% weight)
utilization(accts) ==
    IF total_credit_limit(accts) > 0
    THEN Rat(total_credit_used(accts) * 100, total_credit_limit(accts))
    ELSE Rat(0, 1)

\* mutant of utilization_band: the band edges are inclusive
utilization_band_inclusive(accts) ==
    LET u == utilization(accts)
    IN  IF ~RatLess(Rat(30, 1), u) THEN [score |-> 100, impact |-> 30]
        ELSE IF ~RatLess(Rat(50, 1), u) THEN [score |-> 80, impact |-> 24]
        ELSE IF ~RatLess(Rat(70, 1), u) THEN [score |-> 60, impact |-> 18]
        ELSE [score |-> 40, impact |-> 12]

utilization_band(accts) ==
    LET u == utilization(accts)
    IN  IF RatLess(u, Rat(30, 1)) THEN [score |-> 100, impact |-> 30]
        ELSE IF RatLess(u, Rat(50, 1)) THEN [score |-> 80, impact |-> 24]
        ELSE IF RatLess(u, Rat(70, 1)) THEN [score |-> 60, impact |-> 18]
        ELSE [score |-> 40, impact |-> 12]

utilization_score(accts) == utilization_band(accts).score

utilization_impact(accts) == utilization_band(accts).impact

\* Account Diversity (10% weight)
\* mutant of diversity_count: counts the runs of equal kinds, not the distinct kinds
diversity_count_runs(accts) ==
    Cardinality({ i \in 1..Len(accts) :
                    i = 1 \/ DictGet(accts[i], "subtype", DictGet(accts[i], "type", ""))
                             # DictGet(accts[i-1], "subtype", DictGet(accts[i-1], "type", "")) })

\* mutant of account_kind: 'type' is preferred to 'subtype'
account_kind_type_first(acc) == DictGet(acc, "type", DictGet(acc, "subtype", ""))

account_kind(acc) == DictGet(acc, "subtype", DictGet(acc, "type", ""))

account_types(accts) == PySet([i \in 1..Len(accts) |-> account_kind(accts[i])])

diversity_count(accts) == Cardinality(account_types(accts))

diversity_band(accts) ==
    LET c == diversity_count(accts)
    IN  IF c >= 4 THEN [score |-> 100, impact |-> 10]
        ELSE IF c = 3 THEN [score |-> 80, impact |-> 8]
        ELSE IF c = 2 THEN [score |-> 60, impact |-> 6]
        ELSE [score |-> 40, impact |-> 4]

diversity_score(accts) == diversity_band(accts).score

diversity_impact(accts) == diversity_band(accts).impact

\* Income Stability (15% weight)
is_income(tx) ==
    \/ PyContains(<<"i","n","c","o","m","e">>, PyLower(DictGet(tx, "category", <<>>)))
    \/ DictGet(tx, "amount", 0) > 1000

income_txs(txs) == SelectSeq(txs, is_income)

income_stability_score(txs) == IF Len(income_txs(txs)) > 0 THEN 70 ELSE 50

income_stability_impact(txs) == PyInt(Rat(income_stability_score(txs) * 15, 100))

\* Account Age (10% weight)
has_date(tx) == DictGetTruthy(tx, "date")

dated_txs(txs) == SelectSeq(txs, has_date)

\* min() of an empty generator raises ValueError
oldest_tx_raises(txs) == txs # <<>> /\ dated_txs(txs) = <<>>

account_age_score(txs) == IF txs # <<>> THEN 70 ELSE 50

account_age_impact(txs) == IF txs # <<>> THEN 7 ELSE 5

\* mutant of overall_score: sums the reported (post-offset) impacts
overall_score_reported(accts, txs) ==
    ( payment_history_impact(txs) + (utilization_impact(accts) - 30)
    + (diversity_impact(accts) - 10) + (income_stability_impact(txs) - 15)
    + (account_age_impact(txs) - 10) ) * 10

\* overall score
overall_score(accts, txs) ==
    ( payment_history_impact(txs) + utilization_impact(accts)
    + diversity_impact(accts) + income_stability_impact(txs)
    + account_age_impact(txs) ) * 10

\* factors array; an explanation is its interpolated number (if any) and its phrase
payment_history_factor(txs) ==
    [ name |-> "Payment History",
      impact |-> payment_history_impact(txs),
      percentage |-> PyInt(payment_history_score(txs)),
      positive |-> payment_history_impact(txs) >= 30,
      explanation |->
         [ n |-> Len(recent_txs(txs)),
           text |-> IF ~RatLess(payment_history_score(txs), Rat(90, 1))
                    THEN "Excellent consistency!"
                    ELSE "Good payment history." ] ]

utilization_factor(accts) ==
    [ name |-> "Credit Utilization",
      impact |-> utilization_impact(accts) - 30,
      percentage |-> IF RatLess(Rat(0, 1), utilization(accts))
                     THEN PyInt(utilization(accts)) ELSE 0,
      positive |-> RatLess(utilization(accts), Rat(30, 1)),
      explanation |->
         [ n |-> PyInt(utilization(accts)),
           text |-> IF RatLess(utilization(accts), Rat(30, 1))
                    THEN "Excellent!"
                    ELSE IF RatLess(utilization(accts), Rat(70, 1))
                    THEN "Reduce to 30% for optimal score."
                    ELSE "High utilization is hurting your score." ] ]

diversity_factor(accts) ==
    [ name |-> "Account Diversity",
      impact |-> diversity_impact(accts) - 10,
      percentage |-> diversity_score(accts),
      positive |-> diversity_count(accts) >= 3,
      explanation |->
         [ n |-> diversity_count(accts),
           text |-> IF diversity_count(accts) >= 4
                    THEN "Excellent diversity!"
                    ELSE IF diversity_count(accts) < 3
                    THEN "Adding more account types would optimize this factor."
                    ELSE "Good account mix." ] ]

\* mutant of income_stability_factor: the impact is reported without its offset
income_stability_factor_raw(txs) ==
    [ name |-> "Income Stability",
      impact |-> income_stability_impact(txs),
      percentage |-> income_stability_score(txs),
      positive |-> income_stability_score(txs) >= 70,
      explanation |->
         [ n |-> 0,
           text |-> IF income_stability_score(txs) >= 70
                    THEN "Consistent income detected."
                    ELSE "Income varies month-to-month." ] ]

income_stability_factor(txs) ==
    [ name |-> "Income Stability",
      impact |-> income_stability_impact(txs) - 15,
      percentage |-> income_stability_score(txs),
      positive |-> income_stability_score(txs) >= 70,
      explanation |->
         [ n |-> 0,
           text |-> IF income_stability_score(txs) >= 70
                    THEN "Consistent income detected."
                    ELSE "Income varies month-to-month." ] ]

account_age_factor(txs) ==
    [ name |-> "Account Age",
      impact |-> account_age_impact(txs) - 10,
      percentage |-> account_age_score(txs),
      positive |-> account_age_score(txs) >= 70,
      explanation |->
         [ n |-> 0,
           text |-> IF account_age_score(txs) >= 70
                    THEN "Good credit history length."
                    ELSE "Newer accounts." ] ]

\* mutant of factors: the first two factors change places
factors_reordered(accts, txs) ==
    << utilization_factor(accts), payment_history_factor(txs),
       diversity_factor(accts), income_stability_factor(txs),
       account_age_factor(txs) >>

factors(accts, txs) ==
    << payment_history_factor(txs), utilization_factor(accts),
       diversity_factor(accts), income_stability_factor(txs),
       account_age_factor(txs) >>

\* the outcome of one call: the dict returned, or the exception that escapes
calculate_factors_from_plaid(accts, txs) ==
    IF oldest_tx_raises(txs)
    THEN [ status |-> "raised", exception |-> "ValueError" ]
    ELSE [ status |-> "returned",
           score |-> overall_score(accts, txs),
           factors |-> factors(accts, txs),
           ficoEquivalent |-> PyInt(Rat(overall_score(accts, txs) * 85, 100)),
           vcCount |-> 0,
           onChainScore |-> PyInt(Rat(overall_score(accts, txs), 10)) ]

\* ------------------------------------------------------------------- inputs
CatIncome == <<"I","n","c","o","m","e">>

CatFood == <<"F","o","o","d">>

\* accounts of a Plaid document; the fields a record lacks are really absent
AccountInputs ==
    { [ subtype |-> "credit card",
        balances |-> [ current |-> -300, limit |-> 1000 ] ],
      [ subtype |-> "credit card",
        balances |-> [ current |-> -700 ] ],
      [ subtype |-> "credit card", type |-> "credit",
        balances |-> [ current |-> 200, limit |-> 1000 ] ],
      [ subtype |-> "checking", type |-> "depository",
        balances |-> [ current |-> 500 ] ],
      [ type |-> "loan" ],
      EmptyDict }

\* transactions of a Plaid document
TransactionInputs ==
    { [ amount |-> 50 ],
      [ amount |-> -20 ],
      [ amount |-> 0, date |-> "2024-01-15", category |-> CatFood ],
      [ date |-> "2024-02-01", category |-> CatIncome ] }

\* ------------------------------------------------------------ state machine
NoResult == [ status |-> "none" ]

\* None
PyNone == [ kind |-> "None" ]

\* no run of get_analysis.py is under way
MainIdle ==
    /\ argv = <<>>
    /\ files = <<>>
    /\ pc = "idle"
    /\ plaid_data = PyNone
    /\ caught = <<>>
    /\ stdout = <<>>
    /\ stderr = <<>>
    /\ exit_status = <<>>

\* no request is being served
ApiIdle ==
    /\ request = <<>>
    /\ df = <<>>
    /\ proc = <<>>
    /\ spawned = <<>>
    /\ response = <<>>

Init ==
    /\ accounts = <<>>
    /\ transactions = <<>>
    /\ result = NoResult
    /\ second = NoResult
    /\ MainIdle
    /\ ApiIdle

\* the document gains one account record
AddAccount(acc) ==
    /\ result = NoResult
    /\ Len(accounts) + Len(transactions) < MaxRecords
    /\ accounts' = Append(accounts, acc)
    /\ UNCHANGED <<transactions, result, second, mainVars, apiVars>>

\* the document gains one transaction record
AddTransaction(tx) ==
    /\ result = NoResult
    /\ Len(accounts) + Len(transactions) < MaxRecords
    /\ transactions' = Append(transactions, tx)
    /\ UNCHANGED <<accounts, result, second, mainVars, apiVars>>

\* one call of calculate_factors_from_plaid on the document
Calculate ==
    /\ result = NoResult
    /\ result' = calculate_factors_from_plaid(accounts, transactions)
    /\ UNCHANGED <<accounts, transactions, second, mainVars, apiVars>>

Next ==
    \/ \E acc \in AccountInputs : AddAccount(acc)
    \/ \E tx \in TransactionInputs : AddTransaction(tx)
    \/ Calculate

Spec == Init /\ [][Next]_vars

\* ------------------------------------------------------------------- claims
Called == result # NoResult

Returned == result.status = "returned"

Raised == result.status = "raised"

\* the account of the spec's end-to-end example
ExampleAccount ==
    [ subtype |-> "credit card", balances |-> [ current |-> -300, limit |-> 1000 ] ]

\* C1: calculate_factors_from_plaid is total: on every document whose records
\* may lack fields it returns a result and never raises.
C1_NeverRaises == ~Raised

\* C2: on the end-to-end example (one credit card -300/1000, transactions
\* [{amount: 50}, {amount: -20}]) the call returns utilization percentage 30
\* with impact -6, Payment History 50/17, Account Diversity 40/-6, Income
\* Stability 50/-8, Account Age 70/-3, score 590, ficoEquivalent 501 and
\* onChainScore 59.
C2_EndToEndExample ==
    ( /\ Called
      /\ accounts = << ExampleAccount >>
      /\ transactions = << [ amount |-> 50 ], [ amount |-> -20 ] >> )
    => /\ Returned
       /\ result.factors[1].percentage = 50 /\ result.factors[1].impact = 17
       /\ result.factors[2].percentage = 30 /\ result.factors[2].impact = -6
       /\ result.factors[3].percentage = 40 /\ result.factors[3].impact = -6
       /\ result.factors[4].percentage = 50 /\ result.factors[4].impact = -8
       /\ result.factors[5].percentage = 70 /\ result.factors[5].impact = -3
       /\ result.score = 590
       /\ result.ficoEquivalent = 501
       /\ result.onChainScore = 59

\* C3: every factor of every returned result has a percentage in 0..100.
C3_PercentageRange ==
    Returned =>
        \A i \in 1..Len(result.factors) : result.factors[i].percentage \in 0..100

\* C4: the returned score lies in 0..850 and onChainScore in 0..100.
C4_ScoreRange ==
    Returned => /\ result.score \in 0..850
                /\ result.onChainScore \in 0..100

\* C5: a returned result has exactly five factors, named in this order: Payment
\* History, Credit Utilization, Account Diversity, Income Stability, Account Age.
C5_FiveFactorsInOrder ==
    Returned =>
        /\ Len(result.factors) = 5
        /\ [ i \in 1..5 |-> result.factors[i].name ]
             = << "Payment History", "Credit Utilization", "Account Diversity",
                  "Income Stability", "Account Age" >>

\* a result returned for a document with accounts and transactions
C5_Witness == Returned /\ accounts # <<>> /\ transactions # <<>>

\* sum of f over the finite set S
RECURSIVE SetSum(_, _)
SetSum(S, f) ==
    IF S = {} THEN 0
    ELSE LET x == CHOOSE y \in S : TRUE
         IN  f[x] + SetSum(S \ {x}, f)

\* C6: score = 10 * (sum of the five pre-offset impacts), the band impacts lying
\* in {30,24,18,12}, {10,8,6,4} and {7,5} and the income impact being
\* floor(score/100*15); ficoEquivalent = floor(score * 0.85) and
\* onChainScore = floor(score / 10).
C6_OverallScore ==
    Returned =>
        /\ utilization_impact(accounts) \in {30, 24, 18, 12}
        /\ diversity_impact(accounts) \in {10, 8, 6, 4}
        /\ income_stability_impact(transactions)
             = (result.factors[4].percentage * 15) \div 100
        /\ account_age_impact(transactions) \in {7, 5}
        /\ result.score
             = 10 * ( result.factors[1].impact + utilization_impact(accounts)
                    + diversity_impact(accounts)
                    + income_stability_impact(transactions)
                    + account_age_impact(transactions) )
        /\ result.ficoEquivalent = (result.score * 85) \div 100
        /\ result.onChainScore = result.score \div 10

\* a returned score whose 0.85 multiple is not whole, so the floor matters
C6_Witness ==
    Returned /\ accounts # <<>> /\ (result.score * 85) % 100 # 0

\* the credit card accounts of the document, by position
C7_Cards ==
    { i \in 1..Len(accounts) :
        "subtype" \in DOMAIN accounts[i] /\ accounts[i]["subtype"] = "credit card" }

\* i's balances.current / balances.limit, 0 when absent
C7_Current(i) ==
    IF "balances" \in DOMAIN accounts[i] /\ "current" \in DOMAIN accounts[i]["balances"]
    THEN accounts[i]["balances"]["current"] ELSE 0

C7_LimitOf(i) ==
    IF "balances" \in DOMAIN accounts[i] /\ "limit" \in DOMAIN accounts[i]["balances"]
    THEN accounts[i]["balances"]["limit"] ELSE 0

C7_Limit == SetSum(C7_Cards, [ i \in C7_Cards |-> C7_LimitOf(i) ])

C7_Used ==
    LET drawn == { i \in C7_Cards : C7_Current(i) < 0 }
    IN  SetSum(drawn, [ i \in drawn |-> 0 - C7_Current(i) ])

\* the band of used/limit*100, compared without dividing
C7_Band ==
    IF C7_Limit <= 0 \/ C7_Used * 100 < 30 * C7_Limit
    THEN [score |-> 100, impact |-> 30]
    ELSE IF C7_Used * 100 < 50 * C7_Limit THEN [score |-> 80, impact |-> 24]
    ELSE IF C7_Used * 100 < 70 * C7_Limit THEN [score |-> 60, impact |-> 18]
    ELSE [score |-> 40, impact |-> 12]

\* C7: utilization is used/limit*100 over credit card accounts (0 when the limit
\* is not positive, only negative balances count as used), banded with strict <
\* into (100,30), (80,24), (60,18), (40,12), so that exactly 30%, 50% and 70%
\* take the worse band; the reported impact is band impact - 30, which is 0
\* exactly when utilization < 30, exactly when positive is true, and negative
\* otherwise.
C7_UtilizationBands ==
    Returned =>
        /\ total_credit_limit(accounts) = C7_Limit
        /\ total_credit_used(accounts) = C7_Used
        /\ utilization_score(accounts) = C7_Band.score
        /\ utilization_impact(accounts) = C7_Band.impact
        /\ result.factors[2].impact = C7_Band.impact - 30
        /\ result.factors[2].positive = (C7_Band.impact = 30)
        /\ (result.factors[2].impact = 0) = result.factors[2].positive
        /\ result.factors[2].impact <= 0
        /\ (C7_Limit > 0 /\ C7_Used * 100 = 30 * C7_Limit) => C7_Band.impact = 24
        /\ (C7_Limit > 0 /\ C7_Used * 100 = 50 * C7_Limit) => C7_Band.impact = 18
        /\ (C7_Limit > 0 /\ C7_Used * 100 = 70 * C7_Limit) => C7_Band.impact = 12

\* a result returned at exactly 30% utilization
C7_Witness == Returned /\ C7_Limit > 0 /\ C7_Used * 100 = 30 * C7_Limit

\* the distinct values of (subtype if present, else type, else '')
C8_Kinds ==
    { IF "subtype" \in DOMAIN accounts[i] THEN accounts[i]["subtype"]
      ELSE IF "type" \in DOMAIN accounts[i] THEN accounts[i]["type"]
      ELSE "" : i \in 1..Len(accounts) }

C8_Band ==
    LET c == Cardinality(C8_Kinds)
    IN  CASE c >= 4 -> [score |-> 100, impact |-> 10]
          [] c = 3 -> [score |-> 80, impact |-> 8]
          [] c = 2 -> [score |-> 60, impact |-> 6]
          [] c \in {0, 1} -> [score |-> 40, impact |-> 4]

\* C8: account diversity is the number of distinct (subtype, else type) values;
\* >= 4 gives percentage 100 and band impact 10, 3 gives (80, 8), 2 gives (60, 6),
\* 1 or 0 gives (40, 4); the reported impact is band impact - 10 and positive is
\* true exactly when the count is >= 3.
C8_DiversityBands ==
    Returned =>
        /\ diversity_count(accounts) = Cardinality(C8_Kinds)
        /\ diversity_impact(accounts) = C8_Band.impact
        /\ result.factors[3].percentage = C8_Band.score
        /\ result.factors[3].impact = C8_Band.impact - 10
        /\ result.factors[3].positive = (Cardinality(C8_Kinds) >= 3)

\* a result returned for four kinds of account, two accounts sharing a subtype
C8_Witness ==
    /\ Returned
    /\ Cardinality(C8_Kinds) >= 4
    /\ Len(accounts) > Cardinality(C8_Kinds)

\* the transactions counted as on time, by position
C9_OnTime ==
    { i \in 1..Len(transactions) :
        IF "amount" \in DOMAIN transactions[i]
        THEN transactions[i]["amount"] >= 0 ELSE TRUE }

C10_EmptyDocument ==
    (Called /\ accounts = <<>> /\ transactions = <<>>) =>
        /\ Returned
        /\ result.factors[1].percentage = 50 /\ result.factors[1].impact = 17
        /\ result.factors[2].percentage = 0 /\ result.factors[2].impact = 0
        /\ result.factors[2].positive
        /\ diversity_count(accounts) = 0
        /\ result.factors[3].percentage = 40 /\ result.factors[3].impact = 4 - 10
        /\ result.factors[4].percentage = 50
        /\ result.factors[5].percentage = 50 /\ result.factors[5].impact = 5 - 10

\* the call has returned on the empty document
C10_Witness == Returned /\ accounts = <<>> /\ transactions = <<>>

\* ------------------------------------------------------- get_analysis.py main
\* the path given on the command line and the three default paths probed
ArgPath == "arg.json"

RootPath == "<project_root>/plaid_node/plaid_user_data.json"

CwdPath == "<cwd>/plaid_node/plaid_user_data.json"

RelPath == "../plaid_node/plaid_user_data.json"

Paths == { ArgPath, RootPath, CwdPath, RelPath }

\* what a path holds: nothing, a file that cannot be read or parsed, or JSON
\* text: null, {}, a non-empty array, or the document {accounts, transactions}
FileKinds == { "missing", "unreadable", "null", "emptydict", "list", "doc" }

\* os.path.exists(path)
path_exists(fs, path) == fs[path] # "missing"

\* json.load(f) on a readable file
json_load(fs, path, accts, txs) ==
    CASE fs[path] = "null" -> PyNone
      [] fs[path] = "emptydict" -> [ kind |-> "dict", keys |-> {} ]
      [] fs[path] = "list" -> [ kind |-> "list" ]
      [] fs[path] = "doc" ->
            [ kind |-> "dict", keys |-> { "accounts", "transactions" },
              accounts |-> accts, transactions |-> txs ]

\* the try/except around open + json.load: the value returned and what is
\* printed to stderr
try_load(fs, path, accts, txs, message) ==
    IF fs[path] = "unreadable"
    THEN [ value |-> PyNone, err |-> << message >> ]
    ELSE [ value |-> json_load(fs, path, accts, txs), err |-> <<>> ]

\* the default path settled on by the probing of lines 26-41
probed_path(fs) ==
    IF path_exists(fs, RootPath) THEN RootPath
    ELSE IF path_exists(fs, CwdPath) THEN CwdPath
    ELSE RelPath

\* mutant of load_plaid_data: a path given but not found falls through to the
\* default paths
load_plaid_data_falls_through(args, fs, accts, txs) ==
    IF args # <<>> /\ args[1] # "" /\ path_exists(fs, args[1])
    THEN try_load(fs, args[1], accts, txs, "Error loading Plaid data from path")
    ELSE IF ~path_exists(fs, probed_path(fs))
         THEN [ value |-> PyNone, err |-> <<>> ]
         ELSE try_load(fs, probed_path(fs), accts, txs, "Error loading Plaid data")

load_plaid_data(args, fs, accts, txs) ==
    IF args # <<>> /\ args[1] # ""
    THEN IF path_exists(fs, args[1])
         THEN try_load(fs, args[1], accts, txs, "Error loading Plaid data from path")
         ELSE [ value |-> PyNone, err |-> << "Plaid data file not found" >> ]
    ELSE IF ~path_exists(fs, probed_path(fs))
         THEN [ value |-> PyNone, err |-> <<>> ]
         ELSE try_load(fs, probed_path(fs), accts, txs, "Error loading Plaid data")

\* bool(plaid_data)
truthy(v) ==
    CASE v.kind = "None" -> FALSE
      [] v.kind = "list" -> TRUE
      [] v.kind = "dict" -> v.keys # {}

\* what print() writes: a line of text, or a JSON document
Text(t) == [ json |-> FALSE, text |-> t ]

Json(v) == [ json |-> TRUE, value |-> v ]

CannedFactor(n, i, p, pos) ==
    [ name |-> n, impact |-> i, percentage |-> p, positive |-> pos,
      explanation |-> [ n |-> 0, text |-> "Connect your bank account via Plaid" ] ]

\* the literal printed when there is no Plaid data
default_analysis ==
    [ score |-> 674,
      factors |-> << CannedFactor("Payment History", 35, 92, TRUE),
                     CannedFactor("Credit Utilization", -20, 65, FALSE),
                     CannedFactor("Account Diversity", 10, 60, TRUE),
                     CannedFactor("Income Stability", -10, 55, FALSE),
                     CannedFactor("Account Age", 15, 70, TRUE) >>,
      ficoEquivalent |-> 720,
      vcCount |-> 0,
      onChainScore |-> 68 ]

\* mutant of error_response: the 'error' field is left out
error_response_unflagged(e) ==
    [ score |-> 674,
      factors |-> << [ name |-> "Payment History", impact |-> 35, percentage |-> 92,
                       positive |-> TRUE,
                       explanation |-> [ n |-> 0, text |-> "XAI analysis error", error |-> e ] ] >>,
      ficoEquivalent |-> 720,
      vcCount |-> 0,
      onChainScore |-> 68 ]

\* the literal printed by the except clause for exception e
error_response(e) ==
    [ error |-> e,
      score |-> 674,
      factors |-> << [ name |-> "Payment History", impact |-> 35, percentage |-> 92,
                       positive |-> TRUE,
                       explanation |-> [ n |-> 0, text |-> "XAI analysis error", error |-> e ] ] >>,
      ficoEquivalent |-> 720,
      vcCount |-> 0,
      onChainScore |-> 68 ]

\* calculate_factors_from_plaid(plaid_data) as main calls it: a list has no .get
main_calculate(v) ==
    IF v.kind = "list"
    THEN [ status |-> "raised", exception |-> "AttributeError" ]
    ELSE calculate_factors_from_plaid(
            IF "accounts" \in v.keys THEN v.accounts ELSE <<>>,
            IF "transactions" \in v.keys THEN v.transactions ELSE <<>>)

\* the dict a returned call hands back
analysis_of(r) ==
    [ score |-> r.score, factors |-> r.factors,
      ficoEquivalent |-> r.ficoEquivalent, vcCount |-> r.vcCount,
      onChainScore |-> r.onChainScore ]

\* the documents a file of kind "doc" may hold
MainAccountLists ==
    { <<>>, << [ subtype |-> "credit card",
                 balances |-> [ current |-> -300, limit |-> 1000 ] ] >> }

MainTransactionLists == { <<>> } \cup { << tx >> : tx \in TransactionInputs }

\* a run of get_analysis.py is about to start
MainInit ==
    /\ accounts \in MainAccountLists
    /\ transactions \in MainTransactionLists
    /\ result = NoResult
    /\ second = NoResult
    /\ argv \in { <<>>, << "" >>, << ArgPath >> }
    /\ files \in [ Paths -> FileKinds ]
    /\ pc = "start"
    /\ plaid_data = PyNone
    /\ caught = <<>>
    /\ stdout = <<>>
    /\ stderr = <<>>
    /\ exit_status = <<>>
    /\ ApiIdle

\* lines 168-170: plaid_data = load_plaid_data(plaid_path)
MainLoad ==
    /\ pc = "start"
    /\ LET l == load_plaid_data(argv, files, accounts, transactions)
       IN  /\ plaid_data' = l.value
           /\ stderr' = stderr \o [ i \in 1..Len(l.err) |-> Text(l.err[i]) ]
    /\ pc' = "loaded"
    /\ UNCHANGED <<scorerVars, apiVars, argv, files, caught, stdout, exit_status>>

\* mutant of MainFallback: the notice is printed to stdout
MainFallback_notice_on_stdout ==
    /\ pc = "loaded"
    /\ ~truthy(plaid_data)
    /\ stdout' = stdout \o << Text("No Plaid data found. Using default analysis."),
                              Json(default_analysis) >>
    /\ pc' = "returned"
    /\ UNCHANGED <<scorerVars, apiVars, argv, files, plaid_data, caught, stderr, exit_status>>

\* lines 172-220: no Plaid data, print the default analysis and return
MainFallback ==
    /\ pc = "loaded"
    /\ ~truthy(plaid_data)
    /\ stderr' = Append(stderr, Text("No Plaid data found. Using default analysis."))
    /\ stdout' = Append(stdout, Json(default_analysis))
    /\ pc' = "returned"
    /\ UNCHANGED <<scorerVars, apiVars, argv, files, plaid_data, caught, exit_status>>

\* lines 223-226: score the data and print the analysis, or raise
MainScore ==
    /\ pc = "loaded"
    /\ truthy(plaid_data)
    /\ LET r == main_calculate(plaid_data)
       IN  IF r.status = "returned"
           THEN /\ stdout' = Append(stdout, Json(analysis_of(r)))
                /\ pc' = "returned"
                /\ UNCHANGED caught
           ELSE /\ caught' = << r.exception >>
                /\ pc' = "except"
                /\ UNCHANGED stdout
    /\ UNCHANGED <<scorerVars, apiVars, argv, files, plaid_data, stderr, exit_status>>

\* lines 228-252: log the exception to stderr, print the error response
MainExcept ==
    /\ pc = "except"
    /\ stderr' = stderr \o << Text("Error in XAI analysis"), Text("Traceback") >>
    /\ stdout' = Append(stdout, Json(error_response(caught[1])))
    /\ pc' = "exiting"
    /\ UNCHANGED <<scorerVars, apiVars, argv, files, plaid_data, caught, exit_status>>

\* the process ends: main returned (status 0) or line 253, sys.exit(1)
MainExit ==
    /\ pc \in { "returned", "exiting" }
    /\ exit_status' = << IF pc = "exiting" THEN 1 ELSE 0 >>
    /\ pc' = "exited"
    /\ UNCHANGED <<scorerVars, apiVars, argv, files, plaid_data, caught, stdout, stderr>>

MainNext ==
    \/ MainLoad
    \/ MainFallback
    \/ MainScore
    \/ MainExcept
    \/ MainExit

SpecMain == MainInit /\ [][MainNext]_vars

\* a path was given on the command line
C11_PathGiven == argv # <<>> /\ argv[1] # ""

\* the first default path that holds a file, if any
C11_FirstFound ==
    IF files[RootPath] # "missing" THEN << RootPath >>
    ELSE IF files[CwdPath] # "missing" THEN << CwdPath >>
    ELSE IF files[RelPath] # "missing" THEN << RelPath >>
    ELSE <<>>

\* the document is absent (at the given path, or at every default path) or the
\* file found raises a read/parse error
C11_AbsentOrUnloadable ==
    IF C11_PathGiven
    THEN files[argv[1]] \in { "missing", "unreadable" }
    ELSE C11_FirstFound = <<>> \/ files[C11_FirstFound[1]] = "unreadable"

\* C11: when the input document is absent or cannot be loaded, main prints the
\* fixed default result (score 674, five canned factors, ficoEquivalent 720,
\* vcCount 0, onChainScore 68) and terminates with exit status 0.
C11_FallbackResult ==
    (pc = "exited" /\ C11_AbsentOrUnloadable) =>
        /\ Len(stdout) = 1
        /\ stdout[1].json
        /\ DOMAIN stdout[1].value
             = { "score", "factors", "ficoEquivalent", "vcCount", "onChainScore" }
        /\ stdout[1].value.score = 674
        /\ Len(stdout[1].value.factors) = 5
        /\ [ i \in 1..5 |-> stdout[1].value.factors[i].name ]
             = << "Payment History", "Credit Utilization", "Account Diversity",
                  "Income Stability", "Account Age" >>
        /\ [ i \in 1..5 |-> stdout[1].value.factors[i].impact ] = << 35, -20, 10, -10, 15 >>
        /\ [ i \in 1..5 |-> stdout[1].value.factors[i].percentage ] = << 92, 65, 60, 55, 70 >>
        /\ stdout[1].value.ficoEquivalent = 720
        /\ stdout[1].value.vcCount = 0
        /\ stdout[1].value.onChainScore = 68
        /\ exit_status = << 0 >>

\* a run has ended that found no file at the first default path and an
\* unreadable one at the second, no path being given
C11_Witness ==
    /\ pc = "exited"
    /\ argv = <<>>
    /\ files[RootPath] = "missing"
    /\ files[CwdPath] = "unreadable"
    /\ files[RelPath] = "doc"

\* the path main ends up opening, if any
C12_Opened ==
    IF C11_PathGiven
    THEN IF files[argv[1]] # "missing" THEN << argv[1] >> ELSE <<>>
    ELSE C11_FirstFound

\* open/json.load raises on the file opened
C12_LoadRaises == C12_Opened # <<>> /\ files[C12_Opened[1]] = "unreadable"

\* calculate_factors_from_plaid raises on the value loaded: an array has no
\* .get, and a document with transactions of which none is dated raises in min()
C12_ScoringRaises ==
    /\ C12_Opened # <<>>
    /\ \/ files[C12_Opened[1]] = "list"
       \/ /\ files[C12_Opened[1]] = "doc"
          /\ transactions # <<>>
          /\ \A i \in 1..Len(transactions) : "date" \notin DOMAIN transactions[i]

\* stdout holds exactly the error-flagged result, and the exit status is not 0
C12_ErrorFlagged ==
    /\ Len(stdout) = 1
    /\ stdout[1].json
    /\ "error" \in DOMAIN stdout[1].value
    /\ stdout[1].value.error \in { "ValueError", "AttributeError" }
    /\ stdout[1].value.score = 674
    /\ stdout[1].value.ficoEquivalent = 720
    /\ stdout[1].value.onChainScore = 68
    /\ stdout[1].value.vcCount = 0
    /\ Len(stdout[1].value.factors) = 1
    /\ stdout[1].value.factors[1].explanation.error = stdout[1].value.error
    /\ exit_status # <<>> /\ exit_status[1] # 0

\* C12 as stated: whenever an exception is raised while loading or scoring, main
\* prints the error-flagged result (an 'error' field, the default score fields,
\* one factor naming the error) and ends with a non-zero exit status.
C12_AnyExceptionErrorFlagged ==
    (pc = "exited" /\ (C12_LoadRaises \/ C12_ScoringRaises)) => C12_ErrorFlagged

\* C12 as amended: an exception raised while scoring is caught by main, which
\* prints the error-flagged result and ends with a non-zero exit status; an
\* exception raised while loading is caught inside load_plaid_data and the run
\* ends with an unflagged result and exit status 0.
C12_ScoringExceptionErrorFlagged ==
    /\ (pc = "exited" /\ C12_ScoringRaises) => C12_ErrorFlagged
    /\ (pc = "exited" /\ C12_LoadRaises) =>
          /\ Len(stdout) = 1
          /\ "error" \notin DOMAIN stdout[1].value
          /\ exit_status = << 0 >>

\* a run has ended after min() raised ValueError in the scorer
C12_Witness == pc = "exited" /\ caught = << "ValueError" >> /\ C12_ScoringRaises

\* C13: on every path of main (fallback, successful scoring, internal error)
\* exactly one JSON document is written to stdout and nothing else is written
\* there, every diagnostic goes to stderr, the exit status is 0 on the success
\* and fallback paths and non-zero on the error path, and the result is printed
\* before the process exits.
C13_SoleStdoutPayload ==
    /\ Len(stdout) <= 1
    /\ \A i \in 1..Len(stdout) : stdout[i].json
    /\ \A i \in 1..Len(stderr) : ~stderr[i].json
    /\ pc \in { "returned", "exiting" } => (Len(stdout) = 1 /\ exit_status = <<>>)
    /\ exit_status # <<>> => (pc = "exited" /\ Len(stdout) = 1)
    /\ pc = "exited" =>
          exit_status = << IF C12_ScoringRaises THEN 1 ELSE 0 >>

\* a run that scored its document has ended
C13_Witness ==
    /\ pc = "exited"
    /\ exit_status = << 0 >>
    /\ stderr = <<>>
    /\ stdout[1].value.score # 674

\* ------------------------------------------- two calls on the same document
\* the account lists scored twice hold at most MaxOrderAccounts accounts
MaxOrderAccounts == 3

\* the lists over S of length at most n
SeqsUpTo(S, n) == UNION { [ 1..k -> S ] : k \in 0..n }

Orders(n) ==
    { f \in [ 1..n -> 1..n ] : \A i, j \in 1..n : f[i] = f[j] => i = j }

OrderInit ==
    /\ accounts \in SeqsUpTo(AccountInputs, MaxOrderAccounts)
    /\ transactions \in MainTransactionLists
    /\ result = NoResult
    /\ second = NoResult
    /\ MainIdle
    /\ ApiIdle

\* a second call of calculate_factors_from_plaid on the same records, the
\* accounts handed over in the order f
CalculateReordered(f) ==
    /\ result # NoResult
    /\ second = NoResult
    /\ LET accts == [ i \in 1..Len(accounts) |-> accounts[f[i]] ]
       IN  second' = [ accounts |-> accts,
                       result |-> calculate_factors_from_plaid(accts, transactions) ]
    /\ UNCHANGED <<accounts, transactions, result, mainVars, apiVars>>

OrderNext ==
    \/ Calculate
    \/ \E f \in Orders(Len(accounts)) : CalculateReordered(f)

SpecOrder == OrderInit /\ [][OrderNext]_vars

C18_ScoreFromReportedImpacts ==
    Returned =>
        LET f == result.factors
        IN  /\ result.score
                 = 650 + 10 * SetSum(1..5, [ i \in 1..5 |-> f[i].impact ])
            /\ f[2].impact = utilization_impact(accounts) - 30
            /\ f[3].impact = diversity_impact(accounts) - 10
            /\ f[4].impact = income_stability_impact(transactions) - 15
            /\ f[5].impact = account_age_impact(transactions) - 10
            /\ \A i \in 2..5 : f[i].impact <= 0
            /\ f[4].impact < 0
            /\ f[5].impact < 0

\* a returned result whose Income Stability and Account Age factors are flagged
\* positive
C18_Witness ==
    Returned /\ result.factors[4].positive /\ result.factors[5].positive

\* ------------------------------------------- train_and_generate_quests.py
\* A feature row keeps the ten features generate_quests reads.  'utilization'
\* and 'payment_history' are fractions in the code and are kept in hundredths
\* here, so the literals 0.3 and 0.9 are 30 and 90.
Opt(cond, quest) == IF cond THEN << quest >> ELSE <<>>

\* mutant of generate_quests: the thresholds are inclusive
generate_quests_inclusive(user_row) ==
    Opt(user_row.fast_food_spend >= 200, "Reduce fast food spending below $200/month")
    \o Opt(user_row.rent_paid_late # 0, "Pay rent on time for 3 months")
    \o Opt(user_row.utilization >= 30, "Reduce credit utilization below 30%")
    \o Opt(user_row.payment_history <= 90, "Improve payment history above 90%")
    \o Opt(user_row.is_student # 0 /\ user_row.test_score_avg <= 80,
           "Increase test score average above 80")
    \o Opt(user_row.github_commits <= 10, "Connect GitHub and increase commits")
    \o Opt(user_row.dao_member = 0, "Join a DAO for financial diversity")
    \o Opt(user_row.crypto_income <= 500, "Increase crypto income above $500")
    \o Opt(user_row.nft_income <= 200, "Increase NFT income above $200")

generate_quests(user_row) ==
    Opt(user_row.fast_food_spend > 200, "Reduce fast food spending below $200/month")
    \o Opt(user_row.rent_paid_late # 0, "Pay rent on time for 3 months")
    \o Opt(user_row.utilization > 30, "Reduce credit utilization below 30%")
    \o Opt(user_row.payment_history < 90, "Improve payment history above 90%")
    \o Opt(user_row.is_student # 0 /\ user_row.test_score_avg < 80,
           "Increase test score average above 80")
    \o Opt(user_row.github_commits < 10, "Connect GitHub and increase commits")
    \o Opt(user_row.dao_member = 0, "Join a DAO for financial diversity")
    \o Opt(user_row.crypto_income < 500, "Increase crypto income above $500")
    \o Opt(user_row.nft_income < 200, "Increase NFT income above $200")

\* A line of output is a sequence of pieces; "-" and " " are pieces of their
\* own, so a line starts with '- ' exactly when these are its first two pieces.
\* print('-', q)
quest_line(q) == << "-", " ", q >>

FeatureNames ==
    << "fast_food_spend", "rent_paid_late", "utilization", "payment_history",
       "is_student", "test_score_avg", "github_commits", "dao_member",
       "crypto_income", "nft_income" >>

\* print(sample): one line per feature, then the Series footer
sample_lines(user_row) ==
    [ i \in 1..Len(FeatureNames) |-> << FeatureNames[i], "    ", "<value>" >> ]
    \o << << "Name: 0, dtype: float64" >> >>

\* what main() prints, and the exit code of the script; with no data file
\* df.drop('target') raises before anything is printed
train_main(rows) ==
    IF Len(rows) = 1
    THEN [ returncode |-> 0,
           stdout |-> << <<>>, << "Sample user features:" >> >>
                      \o sample_lines(rows[1])
                      \o << <<>>, << "Recommended quests:" >> >>
                      \o [ i \in 1..Len(generate_quests(rows[1])) |->
                             quest_line(generate_quests(rows[1])[i]) ] ]
    ELSE [ returncode |-> 1, stdout |-> <<>> ]

\* the feature rows tried: each thresholded feature below, on and above its
\* threshold
RowInputs ==
    [ fast_food_spend : { 150, 200, 250 },
      rent_paid_late : { 0, 1 },
      utilization : { 20, 30, 40 },
      payment_history : { 85, 90, 95 },
      is_student : { 0, 1 },
      test_score_avg : { 79, 80 },
      github_commits : { 9, 10 },
      dao_member : { 0, 1 },
      crypto_income : { 499, 500 },
      nft_income : { 199, 200 } ]

DfInputs == { <<>> } \cup { << row >> : row \in RowInputs }

\* --------------------------------- generate_quests_api.py, xrpl_vc_api.py
\* os.environ.get('API_KEY', 'changeme'), the environment not setting it
API_KEY == "changeme"

\* request.headers.get('X-API-KEY') == API_KEY; a request without the header
\* has key <<>>
require_api_key(req) == req.key # <<>> /\ req.key[1] = API_KEY

\* jsonify(body), status
Respond(status, body) == [ status |-> status, body |-> body ]

Unauthorized == Respond(401, [ success |-> FALSE, error |-> "Unauthorized" ])

\* d.get(k) or default
GetOr(d, k, default) == IF DictGetTruthy(d, k) THEN d[k] ELSE default

\* json.loads(stdout.strip().splitlines()[-1]) followed by parsed.get: it
\* succeeds when there is a last line and that line is a JSON object
parses(out) ==
    /\ out.stdout # <<>>
    /\ out.stdout[Len(out.stdout)].json
    /\ out.stdout[Len(out.stdout)].value.kind = "dict"

parsed(out) == out.stdout[Len(out.stdout)].value.fields

\* /generate-quests
generate_quests_route(req, rows) ==
    IF ~require_api_key(req)
    THEN [ response |-> Unauthorized, spawned |-> <<>>, proc |-> <<>> ]
    ELSE LET run == train_main(rows)
             lines == SelectSeq(run.stdout,
                        LAMBDA l : Len(l) >= 2 /\ l[1] = "-" /\ l[2] = " ")
         IN  [ response |->
                 Respond(200, [ quests |->
                     [ i \in 1..Len(lines) |-> SubSeq(lines[i], 3, Len(lines[i])) ] ]),
               spawned |-> << << "python", "../xai_engine/convert_plaid_to_holistic.py" >>,
                              << "python", "../xai_engine/train_and_generate_quests.py" >> >>,
               proc |-> << run >> ]

\* mutant of fulfill_quest_run: a parse failure is reported as a failure
fulfill_quest_run_strict(out) ==
    IF ~out.started
    THEN Respond(500, [ success |-> FALSE, error |-> "exception" ])
    ELSE IF out.returncode = 0
    THEN IF parses(out)
         THEN Respond(200, [ success |-> TRUE, result |-> parsed(out) ])
         ELSE Respond(500, [ success |-> FALSE, stdout |-> out.stdout, stderr |-> out.stderr ])
    ELSE Respond(500, [ success |-> FALSE, stdout |-> out.stdout, stderr |-> out.stderr ])

\* /fulfill-quest, lines 48-71: the try block around subprocess.run
fulfill_quest_run(out) ==
    IF ~out.started
    THEN Respond(500, [ success |-> FALSE, error |-> "exception" ])
    ELSE IF out.returncode = 0
    THEN IF parses(out)
         THEN IF DictGetTruthy(parsed(out), "txHash")
              THEN IF DictGetTruthy(parsed(out), "tokenId")
                   THEN Respond(200, [ success |-> TRUE, txHash |-> parsed(out)["txHash"],
                                       tokenId |-> parsed(out)["tokenId"],
                                       nftAddress |-> << "0x", parsed(out)["tokenId"] >> ])
                   ELSE Respond(200, [ success |-> TRUE, txHash |-> parsed(out)["txHash"] ])
              ELSE Respond(200, [ success |-> TRUE, result |-> parsed(out) ])
         ELSE Respond(200, [ success |-> TRUE, stdout |-> out.stdout, stderr |-> out.stderr ])
    ELSE Respond(500, [ success |-> FALSE, stdout |-> out.stdout, stderr |-> out.stderr ])

\* /fulfill-quest
fulfill_quest(req, out) ==
    IF ~require_api_key(req)
    THEN [ response |-> Unauthorized, spawned |-> <<>>, proc |-> <<>> ]
    ELSE IF ~DictGetTruthy(req.body, "questId")
    THEN [ response |-> Respond(400, [ success |-> FALSE, error |-> "questId required" ]),
           spawned |-> <<>>, proc |-> <<>> ]
    ELSE [ response |-> fulfill_quest_run(out),
           spawned |-> << << "node", ".\\scripts\\oracleFulfillQuests.mjs",
                             "--userAddress",
                             GetOr(req.body, "userAddress",
                                   "0x3Dc88401919665Ee05159985656A139ecEb072bb"),
                             "--userId", GetOr(req.body, "userId", "user_from_plaid"),
                             "--questId", req.body["questId"] >> >>,
           proc |-> << out >> ]

\* /verify-vc-chain, lines 51-91: the try block around subprocess.run
verify_vc_chain_run(req, out) ==
    IF ~out.started
    THEN Respond(500, [ success |-> FALSE, error |-> "exception" ])
    ELSE IF out.returncode = 0
    THEN IF parses(out)
         THEN Respond(200, [ success |-> TRUE,
                             valid |-> DictGet(parsed(out), "valid", FALSE),
                             reason |-> DictGet(parsed(out), "reason", ""),
                             chain |-> DictGet(parsed(out), "chain", <<>>),
                             vcId |-> req.body["vcId"] ])
         ELSE Respond(500, [ success |-> FALSE, error |-> "Failed to parse result",
                             stdout |-> out.stdout, stderr |-> out.stderr ])
    ELSE Respond(500, [ success |-> FALSE, error |-> "Verification failed",
                        stdout |-> out.stdout, stderr |-> out.stderr ])

\* /verify-vc-chain
verify_vc_chain(req, out) ==
    IF ~require_api_key(req)
    THEN [ response |-> Unauthorized, spawned |-> <<>>, proc |-> <<>> ]
    ELSE IF ~DictGetTruthy(req.body, "vcId")
    THEN [ response |-> Respond(400, [ success |-> FALSE, error |-> "vcId required" ]),
           spawned |-> <<>>, proc |-> <<>> ]
    ELSE [ response |-> verify_vc_chain_run(req, out),
           spawned |-> << << "node", "<project_root>/scripts/verify-xrpl-vc-chain.mjs",
                             "--vcId", req.body["vcId"],
                             "--chainOfTrust", GetOr(req.body, "chainOfTrust", ""),
                             "--trustedRegulators",
                             DictGet(req.body, "trustedRegulators", "<default regulators>") >> >>,
           proc |-> << out >> ]

\* /issue-vc, lines 125-162: the try block around subprocess.run
issue_vc_run(out) ==
    IF ~out.started
    THEN Respond(500, [ success |-> FALSE, error |-> "exception" ])
    ELSE IF out.returncode = 0
    THEN IF parses(out)
         THEN Respond(200, [ success |-> TRUE,
                             vcId |-> DictGet(parsed(out), "vcId", "None"),
                             txHash |-> DictGet(parsed(out), "txHash", "None"),
                             vc |-> DictGet(parsed(out), "vc", "None") ])
         ELSE Respond(500, [ success |-> FALSE, error |-> "Failed to parse result",
                             stdout |-> out.stdout ])
    ELSE Respond(500, [ success |-> FALSE, error |-> "VC issuance failed",
                        stdout |-> out.stdout, stderr |-> out.stderr ])

\* mutant of issue_vc: the required fields are checked before the API key
issue_vc_fields_first(req, out) ==
    IF ~(DictGetTruthy(req.body, "type") /\ DictGetTruthy(req.body, "issuerDid")
          /\ DictGetTruthy(req.body, "subjectDid"))
    THEN [ response |-> Respond(400, [ success |-> FALSE, error |-> "Missing required fields" ]),
           spawned |-> <<>>, proc |-> <<>> ]
    ELSE IF ~require_api_key(req)
    THEN [ response |-> Unauthorized, spawned |-> <<>>, proc |-> <<>> ]
    ELSE [ response |-> issue_vc_run(out),
           spawned |-> << << "node", "<project_root>/scripts/issue-xrpl-vc.mjs",
                             "--type", req.body["type"],
                             "--issuerDid", req.body["issuerDid"],
                             "--subjectDid", req.body["subjectDid"],
                             "--credentialSubject", DictGet(req.body, "credentialSubject", "{}"),
                             "--issuerSecret", GetOr(req.body, "issuerSecret", ""),
                             "--parentVCId", GetOr(req.body, "parentVCId", "") >> >>,
           proc |-> << out >> ]

\* /issue-vc
issue_vc(req, out) ==
    IF ~require_api_key(req)
    THEN [ response |-> Unauthorized, spawned |-> <<>>, proc |-> <<>> ]
    ELSE IF ~(DictGetTruthy(req.body, "type") /\ DictGetTruthy(req.body, "issuerDid")
               /\ DictGetTruthy(req.body, "subjectDid"))
    THEN [ response |-> Respond(400, [ success |-> FALSE, error |-> "Missing required fields" ]),
           spawned |-> <<>>, proc |-> <<>> ]
    ELSE [ response |-> issue_vc_run(out),
           spawned |-> << << "node", "<project_root>/scripts/issue-xrpl-vc.mjs",
                             "--type", req.body["type"],
                             "--issuerDid", req.body["issuerDid"],
                             "--subjectDid", req.body["subjectDid"],
                             "--credentialSubject", DictGet(req.body, "credentialSubject", "{}"),
                             "--issuerSecret", GetOr(req.body, "issuerSecret", ""),
                             "--parentVCId", GetOr(req.body, "parentVCId", "") >> >>,
           proc |-> << out >> ]

\* ------------------------------------------------ serving one request
\* request.get_json() or {}: the JSON objects holding any of the given keys,
\* each with an empty or a non-empty string
Bodies(keys) == UNION { [ present -> { "", "v" } ] : present \in SUBSET keys }

HeaderInputs == { <<>>, << "changeme" >>, << "wrong" >> }

Requests ==
    [ endpoint : { "/generate-quests" }, key : HeaderInputs, body : Bodies({}) ]
    \cup [ endpoint : { "/fulfill-quest" }, key : HeaderInputs,
           body : Bodies({ "questId", "userAddress", "userId" }) ]
    \cup [ endpoint : { "/verify-vc-chain" }, key : HeaderInputs,
           body : Bodies({ "vcId", "chainOfTrust", "trustedRegulators" }) ]
    \cup [ endpoint : { "/issue-vc" }, key : HeaderInputs,
           body : Bodies({ "type", "issuerDid", "subjectDid" }) ]

\* the JSON values a node script may print on its last line
JsonObject(f) == [ kind |-> "dict", fields |-> f ]

LastLineInputs ==
    { Text("done"),
      Json([ kind |-> "list" ]),
      Json(JsonObject(<<>>)),
      Json(JsonObject([ k \in { "txHash" } |-> "0xhash" ])),
      Json(JsonObject([ k \in { "txHash", "tokenId" } |-> IF k = "txHash" THEN "0xhash" ELSE "7" ])),
      Json(JsonObject([ k \in { "valid", "reason" } |-> IF k = "valid" THEN "true" ELSE "trusted" ])),
      Json(JsonObject([ k \in { "vcId", "txHash", "vc" } |-> "x" ])) }

StdoutInputs ==
    { <<>> } \cup { << l >> : l \in LastLineInputs }
    \cup { << Text("log"), l >> : l \in LastLineInputs }

\* what subprocess.run does: raise before the process exists, or return its
\* exit code and captured output
ProcInputs ==
    { [ started |-> FALSE ] }
    \cup [ started : { TRUE }, returncode : { 0, 1 }, stdout : StdoutInputs,
           stderr : { "", "err" } ]

\* a request has arrived; df is the feature table the quest script will load
ApiInit ==
    /\ request \in Requests
    /\ df \in IF request.endpoint = "/generate-quests" THEN DfInputs ELSE { <<>> }
    /\ proc = <<>>
    /\ spawned = <<>>
    /\ response = <<>>
    /\ accounts = <<>>
    /\ transactions = <<>>
    /\ result = NoResult
    /\ second = NoResult
    /\ MainIdle

Serve(r) ==
    /\ response = <<>>
    /\ response' = r.response
    /\ spawned' = r.spawned
    /\ proc' = r.proc
    /\ UNCHANGED <<request, df, scorerVars, mainVars>>

GenerateQuests ==
    /\ request.endpoint = "/generate-quests"
    /\ Serve(generate_quests_route(request, df))

FulfillQuest ==
    /\ request.endpoint = "/fulfill-quest"
    /\ \E out \in ProcInputs : Serve(fulfill_quest(request, out))

VerifyVcChain ==
    /\ request.endpoint = "/verify-vc-chain"
    /\ \E out \in ProcInputs : Serve(verify_vc_chain(request, out))

IssueVc ==
    /\ request.endpoint = "/issue-vc"
    /\ \E out \in ProcInputs : Serve(issue_vc(request, out))

ApiNext ==
    \/ GenerateQuests
    \/ FulfillQuest
    \/ VerifyVcChain
    \/ IssueVc

SpecApi == ApiInit /\ [][ApiNext]_vars

\* ------------------------------------------------------------ C15
Served == response # <<>>

C15_KeyMatches == request.key = << API_KEY >>

C15_Required ==
    CASE request.endpoint = "/generate-quests" -> {}
      [] request.endpoint = "/fulfill-quest" -> { "questId" }
      [] request.endpoint = "/verify-vc-chain" -> { "vcId" }
      [] request.endpoint = "/issue-vc" -> { "type", "issuerDid", "subjectDid" }

C15_FieldMissing ==
    \E k \in C15_Required : k \notin DOMAIN request.body \/ request.body[k] = ""

\* C15: in every endpoint a request whose X-API-KEY differs from the
\* configured key is answered 401 with success=false and starts no
\* subprocess; an authorized request missing a required field is answered
\* 400 and starts no subprocess; a subprocess is started only when the key
\* matches and every required field is there.
C15_ChecksBeforeSubprocess ==
    Served =>
        /\ ~C15_KeyMatches =>
              /\ response.status = 401
              /\ response.body.success = FALSE
              /\ spawned = <<>>
        /\ (C15_KeyMatches /\ C15_FieldMissing) =>
              /\ response.status = 400
              /\ spawned = <<>>
        /\ spawned # <<>> => (C15_KeyMatches /\ ~C15_FieldMissing)

\* an authorized /issue-vc request without subjectDid was answered
C15_Witness ==
    /\ Served
    /\ request.endpoint = "/issue-vc"
    /\ C15_KeyMatches
    /\ DOMAIN request.body = { "type", "issuerDid" }
    /\ response.status = 400

\* ------------------------------------------------------------ C16
C16_Ran ==
    /\ Served
    /\ proc # <<>>
    /\ request.endpoint \in { "/fulfill-quest", "/verify-vc-chain", "/issue-vc" }

C16_ExitedZero == proc[1].started /\ proc[1].returncode = 0

C16_LastLineIsObject ==
    /\ proc[1].stdout # <<>>
    /\ LET last == proc[1].stdout[Len(proc[1].stdout)]
       IN  last.json /\ last.value.kind = "dict"

C16_Answered(status, success) ==
    response.status = status /\ response.body.success = success

\* C16 as stated: in /fulfill-quest, /verify-vc-chain and /issue-vc exit
\* code 0 yields 200 with success=true, and a non-zero exit code or a
\* failure to start the subprocess yields 500 with success=false.
C16_ExitCodeDeterminesStatus ==
    C16_Ran =>
        IF C16_ExitedZero THEN C16_Answered(200, TRUE) ELSE C16_Answered(500, FALSE)

C16_FieldFromLastLine(k) ==
    LET fields == proc[1].stdout[Len(proc[1].stdout)].value.fields
    IN  (k \in DOMAIN fields /\ fields[k] # "") => response.body[k] = fields[k]

\* C16 amended: a non-zero exit code or a failure to start yields 500 with
\* success=false; exit code 0 yields 200 with success=true when the last
\* line of standard output is a JSON object, its fields being reported;
\* when it is not, /fulfill-quest still answers 200 with success=true and
\* the raw output, while /verify-vc-chain and /issue-vc answer 500 with
\* success=false.
C16_ExitCodeAndParseDetermineStatus ==
    C16_Ran =>
        IF ~C16_ExitedZero
        THEN C16_Answered(500, FALSE)
        ELSE IF C16_LastLineIsObject
        THEN /\ C16_Answered(200, TRUE)
             /\ CASE request.endpoint = "/fulfill-quest" -> C16_FieldFromLastLine("txHash")
                  [] request.endpoint = "/verify-vc-chain" -> C16_FieldFromLastLine("valid")
                  [] request.endpoint = "/issue-vc" -> C16_FieldFromLastLine("vcId")
        ELSE IF request.endpoint = "/fulfill-quest"
        THEN /\ C16_Answered(200, TRUE)
             /\ response.body.stdout = proc[1].stdout
        ELSE C16_Answered(500, FALSE)

\* the verification script exited with 0 and its last line was not JSON
C16_Witness ==
    /\ C16_Ran
    /\ request.endpoint = "/verify-vc-chain"
    /\ C16_ExitedZero
    /\ ~C16_LastLineIsObject
    /\ response.status = 500

\* ------------------------------------------------------------ C17
C17_Rules(row) ==
    << row.fast_food_spend > 200,
       row.rent_paid_late = 1,
       row.utilization > 30,
       row.payment_history < 90,
       row.is_student = 1 /\ row.test_score_avg < 80,
       row.github_commits < 10,
       row.dao_member = 0,
       row.crypto_income < 500,
       row.nft_income < 200 >>

C17_Quests ==
    << "Reduce fast food spending below $200/month",
       "Pay rent on time for 3 months",
       "Reduce credit utilization below 30%",
       "Improve payment history above 90%",
       "Increase test score average above 80",
       "Connect GitHub and increase commits",
       "Join a DAO for financial diversity",
       "Increase crypto income above $500",
       "Increase NFT income above $200" >>

C17_ServedQuests ==
    /\ Served
    /\ request.endpoint = "/generate-quests"
    /\ response.status = 200

C17_QuestLines ==
    { i \in 1..Len(proc[1].stdout) :
        /\ Len(proc[1].stdout[i]) >= 2
        /\ proc[1].stdout[i][1] = "-"
        /\ proc[1].stdout[i][2] = " " }

\* C17: for every feature row the quests are exactly those whose rule
\* fires, in the fixed order of the nine rules and each at most once, the
\* comparisons being strict; and /generate-quests returns exactly the
\* standard-output lines that begin with '- ', in order, without the prefix.
C17_QuestsAreFiredRules ==
    C17_ServedQuests =>
        LET quests == response.body.quests
            out == proc[1].stdout
        IN  /\ Len(df) = 1 =>
                 /\ \A i \in 1..9 :
                      C17_Rules(df[1])[i] <=>
                          \E k \in 1..Len(quests) : quests[k] = << C17_Quests[i] >>
                 /\ \A k \in 1..Len(quests) :
                      \E i \in 1..9 :
                          /\ quests[k] = << C17_Quests[i] >>
                          /\ \A l \in 1..(k-1) :
                               \E j \in 1..(i-1) : quests[l] = << C17_Quests[j] >>
            /\ Len(quests) = Cardinality(C17_QuestLines)
            /\ \A i \in C17_QuestLines :
                 << "-", " " >> \o quests[Cardinality({ j \in C17_QuestLines : j <= i })]
                     = out[i]

\* a row with every thresholded feature exactly on its threshold was served:
\* only the DAO rule fires
C17_Witness ==
    /\ C17_ServedQuests
    /\ Len(df) = 1
    /\ df[1].fast_food_spend = 200
    /\ df[1].utilization = 30
    /\ df[1].payment_history = 90
    /\ df[1].test_score_avg = 80
    /\ df[1].github_commits = 10
    /\ df[1].crypto_income = 500
    /\ df[1].nft_income = 200
    /\ df[1].rent_paid_late = 0
    /\ df[1].dao_member = 0
    /\ response.body.quests = << << "Join a DAO for financial diversity" >> >>

====
